---- MODULE Spec2Model ----
(***************************************************************************)
(* Model of deuce-client: the DeuceClient REST operations                  *)
(* (client/deuce.py) acting on one Vault (api/vault.py), its block and     *)
(* file registries and the HTTP exchange of each call.                     *)
(*                                                                         *)
(* Every client operation is one atomic action: it draws its arguments and *)
(* the server's response, and records in `last` what the call was given,   *)
(* which request it issued, and how it ended.                              *)
(*                                                                         *)
(* Block objects are held by value in each registry entry; a Block shared  *)
(* by reference between two registries is reached as two equal entries.    *)
(***************************************************************************)
EXTENDS Integers, Sequences, FiniteSets, TLC

VARIABLES vault, last, splitter, run

vars == <<vault, last, splitter, run>>

\* the state of a splitter and of what it has read
splitVars == <<splitter, run>>

----------------------------------------------------------------------------
(* Bounds *)

\* longest explicit (block_id, offset) list a caller passes
MaxPairs == 2
\* longest block data
MaxDataLen == 1
\* largest offset of a file
MaxOffset == 1
\* longest JSON list in a response body
MaxRespLen == 1
\* longest source a splitter reads
MaxSourceLen == 3
\* largest chunk_size a splitter is configured with
MaxChunk == 2
\* largest count passed to get_blocks
MaxCount == 2

\* the chunk_size of a UniformSplitter that was never configured (1024 * 1024)
DefaultChunkSize == 1048576

----------------------------------------------------------------------------
(* Value universes *)

BlockIds == {"b1", "b2"}

Offsets == 0..MaxOffset

Bytes == {7}

\* file ids the server hands out
ServerFileIds == {"f1"}

\* file ids a caller may pass: a registered one, a well-formed unknown one,
\* a malformed one
FileIdInputs == {"f1", "f2", "f$"}

VaultNameInputs == {"v1", "v$"}

StatusCodes == {200, 201, 204, 404, 500}

RECURSIVE SeqsUpTo(_, _)
SeqsUpTo(S, n) ==
    IF n = 0 THEN {<<>>}
    ELSE LET shorter == SeqsUpTo(S, n - 1)
         IN  shorter \cup {Append(s, x) : s \in {t \in shorter : Len(t) = n - 1}, x \in S}

\* all orders in which the keys of a dict can be iterated
Orders(S) == {s \in SeqsUpTo(S, Cardinality(S)) :
                 Len(s) = Cardinality(S) /\ \A i, j \in 1..Len(s) : i # j => s[i] # s[j]}

----------------------------------------------------------------------------
(* Python values *)

PyNone == [t |-> "none"]

PyStr(s) == [t |-> "str", s |-> s]

PyInt(n) == [t |-> "int", n |-> n]

PyBool(b) == [t |-> "bool", b |-> b]

PyList(l) == [t |-> "list", l |-> l]

PyBytes(d) == [t |-> "bytes", d |-> d]

DataValues == {PyNone} \cup {PyBytes(d) : d \in SeqsUpTo(Bytes, MaxDataLen)}

----------------------------------------------------------------------------
(* api/block.py *)

Block(vault_id, block_id, data) ==
    [vault_id |-> vault_id, block_id |-> block_id, data |-> data]

BlockLen(block) ==
    IF block.data = PyNone THEN 0 ELSE Len(block.data.d)

----------------------------------------------------------------------------
(* api/afile.py, api/files.py, api/blocks.py, common/validation.py, api/v1.py *)

EmptyMap == [x \in {} |-> 0]

File(vault_id, file_id, url) ==
    [vault_id |-> vault_id, file_id |-> file_id, url |-> url,
     blocks |-> EmptyMap, offsets |-> EmptyMap]

\* registry insert: inserting an existing key replaces the value
Put(map, key, value) == (key :> value) @@ map

FileIdRule(file_id) == file_id # "f$"

VaultIdRule(vault_name) == vault_name # "v$"

get_vault_path(vault_id) == <<"vaults", vault_id>>

get_blocks_path(vault_id) == <<"vaults", vault_id, "blocks">>

get_block_path(vault_id, block_id) == <<"vaults", vault_id, "blocks", block_id>>

get_files_path(vault_id) == <<"vaults", vault_id, "files">>

get_file_path(vault_id, file_id) == <<"vaults", vault_id, "files", file_id>>

get_fileblocks_path(vault_id, file_id) == <<"vaults", vault_id, "files", file_id, "blocks">>

----------------------------------------------------------------------------
(* api/vault.py *)

S_unknown == <<"u", "n", "k", "n", "o", "w", "n">>

S_created == <<"c", "r", "e", "a", "t", "e", "d">>

S_deleted == <<"d", "e", "l", "e", "t", "e", "d">>

S_valid == <<"v", "a", "l", "i", "d">>

S_invalid == <<"i", "n", "v", "a", "l", "i", "d">>

\* line 50: the tuple the lowered value is looked up in
StatusNames == {S_unknown, S_created, S_deleted, S_valid, S_invalid}

UpperChars == <<"A", "B", "C", "D", "E", "F", "G", "H", "I", "J", "K", "L", "M",
                "N", "O", "P", "Q", "R", "S", "T", "U", "V", "W", "X", "Y", "Z">>

LowerChars == <<"a", "b", "c", "d", "e", "f", "g", "h", "i", "j", "k", "l", "m",
                "n", "o", "p", "q", "r", "s", "t", "u", "v", "w", "x", "y", "z">>

LowerChar(c) ==
    IF \E i \in 1..Len(UpperChars) : UpperChars[i] = c
    THEN LowerChars[CHOOSE i \in 1..Len(UpperChars) : UpperChars[i] = c]
    ELSE c

\* str.lower()
Lower(str) == [i \in 1..Len(str) |-> LowerChar(str[i])]

NoVault == [t |-> "none"]

\* Vault.__init__: the status property is stored as None
NewVault(vault_id) ==
    [t |-> "Vault", vault_id |-> vault_id, status |-> PyNone, statistics |-> PyNone,
     blocks |-> EmptyMap, files |-> EmptyMap]

\* the status getter
VaultStatus(v) == IF v.status = PyNone THEN S_unknown ELSE v.status.s

\* the setter storing the value as given once its lowered form is recognised
StatusSetter_StoresAsGiven(stored, value) ==
    IF value = PyNone
    THEN [status |-> PyStr(S_unknown), raised |-> FALSE]
    ELSE IF value.t # "str"
    THEN [status |-> stored, raised |-> TRUE]
    ELSE IF Lower(value.s) \in StatusNames
    THEN [status |-> PyStr(value.s), raised |-> FALSE]
    ELSE [status |-> stored, raised |-> TRUE]

\* the status setter: the stored value afterwards, and whether it raised
StatusSetter(stored, value) ==
    IF value = PyNone
    THEN [status |-> PyStr(S_unknown), raised |-> FALSE]
    ELSE IF value.t # "str"
    THEN [status |-> stored, raised |-> TRUE]
    ELSE IF Lower(value.s) \in StatusNames
    THEN [status |-> PyStr(Lower(value.s)), raised |-> FALSE]
    ELSE [status |-> stored, raised |-> TRUE]

----------------------------------------------------------------------------
(* Outcome of a call *)

Returned(value) == [kind |-> "return", exc |-> "", err |-> "", value |-> value]

Raised(exc, err) == [kind |-> "raise", exc |-> exc, err |-> err, value |-> PyNone]

Passed == [kind |-> "ok", exc |-> "", err |-> "", value |-> PyNone]

NoPairs == [given |-> FALSE, pairs |-> <<>>]

NoResponse == [status |-> 0, body |-> PyNone, headers |-> {}]

\* the RuntimeError telling neither the status code nor the body
Unexpected_Bare(res) ==
    [kind |-> "raise", exc |-> "RuntimeError", err |-> "unexpected status", value |-> PyNone]

\* 'Error ({0:}): {1:}'.format(res.status_code, res.text): the RuntimeError every
\* operation raises on a status it does not list
Unexpected(res) ==
    [kind |-> "raise", exc |-> "RuntimeError", err |-> "unexpected status",
     value |-> [status_code |-> res.status, text |-> res.body]]

Request(method, path, headers, body) ==
    [method |-> method, path |-> path, headers |-> headers, body |-> body]

\* the headers __update_headers puts on every request
CommonHeaders == {"X-Auth-Token", "X-Project-ID"}

Call(op, vaultArg, nameArg, file_id, block_ids, block, value, order, reqs, res, outcome) ==
    [op |-> op, vaultArg |-> vaultArg, nameArg |-> nameArg, file_id |-> file_id,
     block_ids |-> block_ids, block |-> block, value |-> value, order |-> order,
     reqs |-> reqs, res |-> res, outcome |-> outcome]

NoCall ==
    Call("none", "na", "", "", NoPairs, PyNone, PyNone, <<>>, <<>>, NoResponse, Passed)

\* no call has returned whose result the caller has yet to take
Idle == last.op = "none"

\* the caller takes the result of the call and goes on
Continue ==
    /\ ~Idle
    /\ last' = NoCall
    /\ UNCHANGED <<vault, splitter, run>>

----------------------------------------------------------------------------
(* client/deuce.py: AssignBlocksToFile *)

Pair(block_id, offset) == [block_id |-> block_id, offset |-> offset]

PairLists == {[given |-> TRUE, pairs |-> l] : l \in SeqsUpTo({Pair(b, o) : b \in BlockIds, o \in Offsets}, MaxPairs)}

\* CheckPair with the offset looked up before the block is looked up in the file
CheckPair_OffsetFirst(v, file_id, p) ==
    IF p.block_id \notin DOMAIN v.blocks
    THEN Raised("KeyError", "block not in vault")
    ELSE IF p.offset \notin DOMAIN v.files[file_id].offsets
    THEN Raised("KeyError", "offset not assigned")
    ELSE IF p.block_id \notin DOMAIN v.files[file_id].blocks
    THEN Raised("KeyError", "block not in file")
    ELSE IF v.files[file_id].offsets[p.offset] # p.block_id
    THEN Raised("ValueError", "offset/block mismatch")
    ELSE Passed

\* CheckPair without its last check
CheckPair_NoMismatch(v, file_id, p) ==
    IF p.block_id \notin DOMAIN v.blocks
    THEN Raised("KeyError", "block not in vault")
    ELSE IF p.block_id \notin DOMAIN v.files[file_id].blocks
    THEN Raised("KeyError", "block not in file")
    ELSE IF p.offset \notin DOMAIN v.files[file_id].offsets
    THEN Raised("KeyError", "offset not assigned")
    ELSE Passed

\* CheckPair without the check against the vault's registry
CheckPair_NoVaultCheck(v, file_id, p) ==
    IF p.block_id \notin DOMAIN v.files[file_id].blocks
    THEN Raised("KeyError", "block not in file")
    ELSE IF p.offset \notin DOMAIN v.files[file_id].offsets
    THEN Raised("KeyError", "offset not assigned")
    ELSE IF v.files[file_id].offsets[p.offset] # p.block_id
    THEN Raised("ValueError", "offset/block mismatch")
    ELSE Passed

\* lines 397-412: the four checks on one explicit pair
CheckPair(v, file_id, p) ==
    IF p.block_id \notin DOMAIN v.blocks
    THEN Raised("KeyError", "block not in vault")
    ELSE IF p.block_id \notin DOMAIN v.files[file_id].blocks
    THEN Raised("KeyError", "block not in file")
    ELSE IF p.offset \notin DOMAIN v.files[file_id].offsets
    THEN Raised("KeyError", "offset not assigned")
    ELSE IF v.files[file_id].offsets[p.offset] # p.block_id
    THEN Raised("ValueError", "offset/block mismatch")
    ELSE Passed

\* line 396: the loop over the explicit pairs, left at the first raise
RECURSIVE CheckPairs(_, _, _, _)
CheckPairs(v, file_id, pairs, i) ==
    IF i > Len(pairs) THEN Passed
    ELSE LET r == CheckPair(v, file_id, pairs[i])
         IN  IF r.kind = "raise" THEN r ELSE CheckPairs(v, file_id, pairs, i + 1)

\* CheckOffsets with offset and block_id swapped in the loop header: the key
\* looked up in file.blocks is an offset, which is never one of its keys
CheckOffsets_Swapped(file, order, i) ==
    IF i > Len(order) THEN Passed
    ELSE Raised("KeyError", "dangling offset reference")

\* line 418: the loop over file.offsets.items(), in iteration order
RECURSIVE CheckOffsets(_, _, _)
CheckOffsets(file, order, i) ==
    IF i > Len(order) THEN Passed
    ELSE IF file.offsets[order[i]] \notin DOMAIN file.blocks
         THEN Raised("KeyError", "dangling offset reference")
         ELSE CheckOffsets(file, order, i + 1)

\* AssignValidate without the len(block_ids) == 0 check
AssignValidate_EmptyListPasses(v, vaultArg, file_id, block_ids, order) ==
    IF ~FileIdRule(file_id)
    THEN Raised("ValidationError", "malformed file_id")
    ELSE IF vaultArg # "Vault"
    THEN Raised("TypeError", "vault not a Vault")
    ELSE IF file_id \notin DOMAIN v.files
    THEN Raised("KeyError", "file_id not in vault")
    ELSE IF block_ids.given
    THEN CheckPairs(v, file_id, block_ids.pairs, 1)
    ELSE IF Cardinality(DOMAIN v.files[file_id].offsets) = 0
    THEN Raised("ValueError", "empty offsets")
    ELSE IF Cardinality(DOMAIN v.files[file_id].blocks) = 0
    THEN Raised("ValueError", "empty blocks")
    ELSE CheckOffsets(v.files[file_id], order, 1)

\* AssignValidate without the len(file.blocks) == 0 check
AssignValidate_NoBlocksCheck(v, vaultArg, file_id, block_ids, order) ==
    IF ~FileIdRule(file_id)
    THEN Raised("ValidationError", "malformed file_id")
    ELSE IF vaultArg # "Vault"
    THEN Raised("TypeError", "vault not a Vault")
    ELSE IF file_id \notin DOMAIN v.files
    THEN Raised("KeyError", "file_id not in vault")
    ELSE IF block_ids.given
    THEN IF Len(block_ids.pairs) = 0
         THEN Raised("ValueError", "empty block_ids")
         ELSE CheckPairs(v, file_id, block_ids.pairs, 1)
    ELSE IF Cardinality(DOMAIN v.files[file_id].offsets) = 0
    THEN Raised("ValueError", "empty offsets")
    ELSE CheckOffsets(v.files[file_id], order, 1)

\* lines 375-422: everything that runs before the request is built
AssignValidate(v, vaultArg, file_id, block_ids, order) ==
    IF ~FileIdRule(file_id)
    THEN Raised("ValidationError", "malformed file_id")
    ELSE IF vaultArg # "Vault"
    THEN Raised("TypeError", "vault not a Vault")
    ELSE IF file_id \notin DOMAIN v.files
    THEN Raised("KeyError", "file_id not in vault")
    ELSE IF block_ids.given
    THEN IF Len(block_ids.pairs) = 0
         THEN Raised("ValueError", "empty block_ids")
         ELSE CheckPairs(v, file_id, block_ids.pairs, 1)
    ELSE IF Cardinality(DOMAIN v.files[file_id].offsets) = 0
    THEN Raised("ValueError", "empty offsets")
    ELSE IF Cardinality(DOMAIN v.files[file_id].blocks) = 0
    THEN Raised("ValueError", "empty blocks")
    ELSE CheckOffsets(v.files[file_id], order, 1)

Entry(id, offset, size) == [id |-> id, offset |-> offset, size |-> size]

\* AssignPayload that lists the entries derived from file.offsets last first
AssignPayload_DerivedReversed(file, block_ids, order) ==
    IF block_ids.given
    THEN [i \in 1..Len(block_ids.pairs) |->
             Entry(block_ids.pairs[i].block_id, block_ids.pairs[i].offset,
                   BlockLen(file.blocks[block_ids.pairs[i].block_id]))]
    ELSE [i \in 1..Len(order) |->
             Entry(file.offsets[order[Len(order) + 1 - i]], order[Len(order) + 1 - i],
                   BlockLen(file.blocks[file.offsets[order[Len(order) + 1 - i]]]))]

\* AssignPayload with every entry's size left at 0
AssignPayload_Unsized(file, block_ids, order) ==
    IF block_ids.given
    THEN [i \in 1..Len(block_ids.pairs) |->
             Entry(block_ids.pairs[i].block_id, block_ids.pairs[i].offset, 0)]
    ELSE [i \in 1..Len(order) |-> Entry(file.offsets[order[i]], order[i], 0)]

\* lines 451-471: block_assignment_data['blocks']
AssignPayload(file, block_ids, order) ==
    IF block_ids.given
    THEN [i \in 1..Len(block_ids.pairs) |->
             Entry(block_ids.pairs[i].block_id, block_ids.pairs[i].offset,
                   BlockLen(file.blocks[block_ids.pairs[i].block_id]))]
    ELSE [i \in 1..Len(order) |->
             Entry(file.offsets[order[i]], order[i],
                   BlockLen(file.blocks[file.offsets[order[i]]]))]

\* AssignResult that swallows a failure and reports nothing left to upload
AssignResult_NoRaise(res) ==
    IF res.status = 200
    THEN Returned(PyList(res.body.l))
    ELSE Returned(PyList(<<>>))

\* lines 477-484
AssignResult(res) ==
    IF res.status = 200
    THEN Returned(PyList(res.body.l))
    ELSE Unexpected(res)

\* responses to the POST: a JSON list of block ids, or a failure
AssignResponses ==
    {[status |-> 200, body |-> PyList(l), headers |-> {}] : l \in SeqsUpTo(BlockIds, MaxRespLen)}
    \cup {[status |-> s, body |-> PyNone, headers |-> {}] : s \in StatusCodes \ {200}}

\* the orders in which file.offsets.items() may be iterated; the loop runs
\* only when no explicit list is given and the earlier checks have passed
OffsetOrders(v, vaultArg, file_id, block_ids) ==
    IF vaultArg = "Vault" /\ file_id \in DOMAIN v.files /\ ~block_ids.given
    THEN Orders(DOMAIN v.files[file_id].offsets)
    ELSE {<<>>}

VaultArgs == IF vault.t = "Vault" THEN {"Vault", "str"} ELSE {"str"}

\* the block_ids arguments tried: every list for a file of the vault that
\* holds blocks, and a sample of each shape (absent, empty, one pair) where
\* the call is rejected before block_ids is read or at its first pair
AssignBlockIds(v, vaultArg, file_id) ==
    IF vaultArg = "Vault" /\ file_id \in DOMAIN v.files
    THEN IF DOMAIN v.files[file_id].blocks # {}
         THEN PairLists \cup {NoPairs}
         ELSE {l \in PairLists : Len(l.pairs) <= 1} \cup {NoPairs}
    ELSE {NoPairs, [given |-> TRUE, pairs |-> <<>>],
          [given |-> TRUE, pairs |-> <<Pair("b1", 0)>>]}

\* lines 424-475: the POST, issued once validation has passed
AssignRequest(v, file_id, block_ids, order) ==
    Request("POST", get_file_path(v.vault_id, file_id), CommonHeaders,
            PyList(AssignPayload(v.files[file_id], block_ids, order)))

\* the responses a call can meet: none when it is rejected before the POST
AssignExchange(checked) ==
    IF checked.kind = "raise" THEN {NoResponse} ELSE AssignResponses

\* what the call leaves for the caller to see
AssignCall(v, vaultArg, file_id, block_ids, order, res) ==
    LET checked == AssignValidate(v, vaultArg, file_id, block_ids, order)
    IN  IF checked.kind = "raise"
        THEN Call("AssignBlocksToFile", vaultArg, "", file_id, block_ids, PyNone, PyNone,
                  order, <<>>, NoResponse, checked)
        ELSE Call("AssignBlocksToFile", vaultArg, "", file_id, block_ids, PyNone, PyNone,
                  order, <<AssignRequest(v, file_id, block_ids, order)>>, res,
                  AssignResult(res))

\* AssignBlocksToFile that resets the file's offsets once the server took them
AssignBlocksToFile_ResetsOffsets ==
    /\ Idle
    /\ UNCHANGED splitVars
    /\ \E vaultArg \in VaultArgs, file_id \in FileIdInputs :
       \E block_ids \in AssignBlockIds(vault, vaultArg, file_id) :
       \E order \in OffsetOrders(vault, vaultArg, file_id, block_ids) :
       \E res \in AssignExchange(AssignValidate(vault, vaultArg, file_id, block_ids, order)) :
          /\ last' = AssignCall(vault, vaultArg, file_id, block_ids, order, res)
          /\ vault' = IF res.status = 200
                      THEN [vault EXCEPT !.files[file_id].offsets = EmptyMap]
                      ELSE vault

AssignBlocksToFile ==
    /\ Idle
    /\ UNCHANGED splitVars
    /\ \E vaultArg \in VaultArgs, file_id \in FileIdInputs :
       \E block_ids \in AssignBlockIds(vault, vaultArg, file_id) :
       \E order \in OffsetOrders(vault, vaultArg, file_id, block_ids) :
       \E res \in AssignExchange(AssignValidate(vault, vaultArg, file_id, block_ids, order)) :
          /\ last' = AssignCall(vault, vaultArg, file_id, block_ids, order, res)
          /\ UNCHANGED vault

----------------------------------------------------------------------------
(* client/deuce.py: CreateFile *)

\* responses to the POST: a 201 carrying both, one or none of the two headers
\* the File is built from, or a failure
CreateFileResponses ==
    UNION {{[status |-> 201, body |-> PyNone, headers |-> h] :
               h \in SUBSET {<<"x-file-id", f>>, <<"location", "url-of-file">>}} :
           f \in ServerFileIds}
    \cup {[status |-> c, body |-> PyNone, headers |-> {}] : c \in StatusCodes \ {201}}

HasHeader(res, name) == \E h \in res.headers : h[1] = name

Header(res, name) == (CHOOSE h \in res.headers : h[1] = name)[2]

\* CreateFile registering the File before it reads the location header
CreateFile_RegistersBeforeLocation ==
    /\ Idle
    /\ UNCHANGED splitVars
    /\ \E vaultArg \in VaultArgs :
       IF vaultArg # "Vault"
       THEN /\ last' = Call("CreateFile", vaultArg, "", "", NoPairs, PyNone, PyNone, <<>>,
                            <<>>, NoResponse, Raised("TypeError", "vault not a Vault"))
            /\ UNCHANGED vault
       ELSE \E res \in CreateFileResponses :
            LET req == Request("POST", get_files_path(vault.vault_id), CommonHeaders, PyNone)
                mk(outcome) == Call("CreateFile", vaultArg, "", "", NoPairs, PyNone, PyNone,
                                    <<>>, <<req>>, res, outcome)
            IN  IF res.status = 201
                THEN IF ~HasHeader(res, "x-file-id")
                     THEN /\ last' = mk(Raised("KeyError", "x-file-id"))
                          /\ UNCHANGED vault
                     ELSE IF ~HasHeader(res, "location")
                     THEN /\ last' = mk(Raised("KeyError", "location"))
                          /\ vault' = [vault EXCEPT !.files =
                                          Put(@, Header(res, "x-file-id"),
                                              File(vault.vault_id, Header(res, "x-file-id"), ""))]
                     ELSE LET new_file == File(vault.vault_id, Header(res, "x-file-id"),
                                               Header(res, "location"))
                          IN  /\ vault' = [vault EXCEPT !.files =
                                              Put(@, new_file.file_id, new_file)]
                              /\ last' = mk(Returned(PyStr(new_file.file_id)))
                ELSE /\ last' = mk(Unexpected(res))
                     /\ UNCHANGED vault

CreateFile ==
    /\ Idle
    /\ UNCHANGED splitVars
    /\ \E vaultArg \in VaultArgs :
       IF vaultArg # "Vault"
       THEN /\ last' = Call("CreateFile", vaultArg, "", "", NoPairs, PyNone, PyNone, <<>>,
                            <<>>, NoResponse, Raised("TypeError", "vault not a Vault"))
            /\ UNCHANGED vault
       ELSE \E res \in CreateFileResponses :
            LET req == Request("POST", get_files_path(vault.vault_id), CommonHeaders, PyNone)
                mk(outcome) == Call("CreateFile", vaultArg, "", "", NoPairs, PyNone, PyNone,
                                    <<>>, <<req>>, res, outcome)
            IN  IF res.status = 201
                THEN IF ~HasHeader(res, "x-file-id")
                     THEN /\ last' = mk(Raised("KeyError", "x-file-id"))
                          /\ UNCHANGED vault
                     ELSE IF ~HasHeader(res, "location")
                     THEN /\ last' = mk(Raised("KeyError", "location"))
                          /\ UNCHANGED vault
                     ELSE LET new_file == File(vault.vault_id, Header(res, "x-file-id"),
                                               Header(res, "location"))
                          IN  /\ vault' = [vault EXCEPT !.files =
                                              Put(@, new_file.file_id, new_file)]
                              /\ last' = mk(Returned(PyStr(new_file.file_id)))
                ELSE /\ last' = mk(Unexpected(res))
                     /\ UNCHANGED vault

----------------------------------------------------------------------------
(* client/deuce.py: GetBlockList *)

\* marker: None, a well-formed block id, a malformed one
MarkerInputs == {PyNone, PyStr("b1"), PyStr("b$")}

\* limit: None, a positive integer, a non-positive one
LimitInputs == {PyNone, PyInt(1), PyInt(0)}

\* the (marker, limit) arguments tried: every well-formed combination, and
\* each malformed argument on its own
ListQueries ==
    {q \in MarkerInputs \X LimitInputs :
        \/ q[1] \in {PyNone, PyStr("b1")} /\ q[2] \in {PyNone, PyInt(1)}
        \/ q = <<PyStr("b$"), PyNone>>
        \/ q = <<PyNone, PyInt(0)>>}

MetadataBlockIdRuleNoneOkay(marker) == marker = PyNone \/ marker.s \in BlockIds

LimitRuleNoneOkay(limit) == limit = PyNone \/ limit.n > 0

\* lines 224-238 and 506-521: the url with its optional query
ListUrl(path, marker, limit) ==
    path \o (IF marker # PyNone \/ limit # PyNone THEN <<"?">> ELSE <<>>)
         \o (IF marker # PyNone
             THEN <<"marker=", marker.s>> \o (IF limit # PyNone THEN <<",">> ELSE <<>>)
             ELSE <<>>)
         \o (IF limit # PyNone THEN <<"limit=", ToString(limit.n)>> ELSE <<>>)

\* the responses tried for a query: every one for the plain listing, and one
\* of each status for a listing with a marker or a limit
ForQuery(query, responses) ==
    IF query = <<PyNone, PyNone>>
    THEN responses
    ELSE {r \in responses : r.body \in {PyNone, PyList(<<>>)}}

ListResponses ==
    {[status |-> 200, body |-> PyList(l), headers |-> {}] : l \in SeqsUpTo(BlockIds, MaxRespLen)}
    \cup {[status |-> s, body |-> PyNone, headers |-> {}] : s \in StatusCodes \ {200}}

\* lines 248-252: vault.blocks[block_entry] = Block(...) for each listed id
\* a listing that registers only the ids the vault does not hold yet
RECURSIVE StoreListed_KeepsExisting(_, _, _, _)
StoreListed_KeepsExisting(blocks, vault_id, listed, i) ==
    IF i > Len(listed) THEN blocks
    ELSE StoreListed_KeepsExisting(
             IF listed[i] \in DOMAIN blocks THEN blocks
             ELSE Put(blocks, listed[i], Block(vault_id, listed[i], PyNone)),
             vault_id, listed, i + 1)

RECURSIVE StoreListed(_, _, _, _)
StoreListed(blocks, vault_id, listed, i) ==
    IF i > Len(listed) THEN blocks
    ELSE StoreListed(Put(blocks, listed[i], Block(vault_id, listed[i], PyNone)),
                     vault_id, listed, i + 1)

GetBlockList ==
    /\ Idle
    /\ UNCHANGED splitVars
    /\ \E vaultArg \in VaultArgs, query \in ListQueries :
       LET marker == query[1]
           limit == query[2]
           mk(reqs, res, outcome) ==
               Call("GetBlockList", vaultArg, "", "", NoPairs, PyNone,
                    PyList(<<marker, limit>>), <<>>, reqs, res, outcome)
       IN  IF ~MetadataBlockIdRuleNoneOkay(marker)
           THEN /\ last' = mk(<<>>, NoResponse, Raised("ValidationError", "malformed marker"))
                /\ UNCHANGED vault
           ELSE IF ~LimitRuleNoneOkay(limit)
           THEN /\ last' = mk(<<>>, NoResponse, Raised("ValidationError", "malformed limit"))
                /\ UNCHANGED vault
           ELSE IF vaultArg # "Vault"
           THEN /\ last' = mk(<<>>, NoResponse, Raised("TypeError", "vault not a Vault"))
                /\ UNCHANGED vault
           ELSE \E res \in ForQuery(query, ListResponses) :
                LET req == Request("GET", ListUrl(get_blocks_path(vault.vault_id), marker, limit),
                                   CommonHeaders, PyNone)
                IN  IF res.status = 200
                    THEN /\ vault' = [vault EXCEPT !.blocks =
                                         StoreListed(@, vault.vault_id, res.body.l, 1)]
                         /\ last' = mk(<<req>>, res, Returned(PyList(res.body.l)))
                    ELSE /\ last' = mk(<<req>>, res, Unexpected(res))
                         /\ UNCHANGED vault

----------------------------------------------------------------------------
(* client/deuce.py: the vault operations *)

\* responses that carry nothing but a status code
PlainResponses == {[status |-> c, body |-> PyNone, headers |-> {}] : c \in StatusCodes}

\* an isinstance failure told as a ValueError
NotAVault_AsValueError == Raised("ValueError", "vault not a Vault")

NotAVault == Raised("TypeError", "vault not a Vault")

NotABlock == Raised("TypeError", "block not a Block")

\* a call that takes a vault name
NameCall(op, vault_name, reqs, res, outcome) ==
    Call(op, "na", vault_name, "", NoPairs, PyNone, PyNone, <<>>, reqs, res, outcome)

\* a call that takes a vault
VaultCall(op, vaultArg, reqs, res, outcome) ==
    Call(op, vaultArg, "", "", NoPairs, PyNone, PyNone, <<>>, reqs, res, outcome)

\* a call that takes a vault and a block
BlockCall(op, vaultArg, block, reqs, res, outcome) ==
    Call(op, vaultArg, "", "", NoPairs, block, PyNone, <<>>, reqs, res, outcome)

\* vault.status = value, as the operations below do it
WithStatus(v, value) == [v EXCEPT !.status = StatusSetter(v.status, value).status]

\* the caller constructs a Vault itself: Vault(project_id, vault_id)
MakeVault ==
    /\ Idle
    /\ UNCHANGED splitVars
    /\ \E vault_name \in VaultNameInputs :
          IF ~VaultIdRule(vault_name)
          THEN /\ last' = NameCall("Vault", vault_name, <<>>, NoResponse,
                                   Raised("ValidationError", "malformed vault name"))
               /\ UNCHANGED vault
          ELSE /\ vault' = NewVault(vault_name)
               /\ last' = NameCall("Vault", vault_name, <<>>, NoResponse,
                                   Returned(NewVault(vault_name)))

CreateVault ==
    /\ Idle
    /\ UNCHANGED splitVars
    /\ \E vault_name \in VaultNameInputs :
          IF ~VaultIdRule(vault_name)
          THEN /\ last' = NameCall("CreateVault", vault_name, <<>>, NoResponse,
                                   Raised("ValidationError", "malformed vault name"))
               /\ UNCHANGED vault
          ELSE \E res \in PlainResponses :
               LET req == Request("PUT", get_vault_path(vault_name), CommonHeaders, PyNone)
                   created == WithStatus(NewVault(vault_name), PyStr(S_created))
               IN  IF res.status = 201
                   THEN /\ vault' = created
                        /\ last' = NameCall("CreateVault", vault_name, <<req>>, res,
                                            Returned(created))
                   ELSE /\ last' = NameCall("CreateVault", vault_name, <<req>>, res, Unexpected(res))
                        /\ UNCHANGED vault

\* lines 154-176, shared by VaultExists and GetVault: the outcome of the HEAD
ExistsResult(res) ==
    IF res.status = 204 THEN Returned(PyBool(TRUE))
    ELSE IF res.status = 404 THEN Returned(PyBool(FALSE))
    ELSE Unexpected(res)

\* ExistsStatus that records nothing when the vault is absent
ExistsStatus_IgnoresAbsent(v, res) ==
    IF res.status = 204 THEN WithStatus(v, PyStr(S_valid))
    ELSE v

\* lines 165-172: the status VaultExists leaves on a Vault it was given
ExistsStatus(v, res) ==
    IF res.status = 204 THEN WithStatus(v, PyStr(S_valid))
    ELSE IF res.status = 404 THEN WithStatus(v, PyStr(S_invalid))
    ELSE v

GetVault ==
    /\ Idle
    /\ UNCHANGED splitVars
    /\ \E vault_name \in VaultNameInputs :
          IF ~VaultIdRule(vault_name)
          THEN /\ last' = NameCall("GetVault", vault_name, <<>>, NoResponse,
                                   Raised("ValidationError", "malformed vault name"))
               /\ UNCHANGED vault
          ELSE \E res \in PlainResponses :
               LET req == Request("HEAD", get_vault_path(vault_name), CommonHeaders, PyNone)
                   exists == ExistsResult(res)
                   found == WithStatus(NewVault(vault_name), PyStr(S_valid))
               IN  IF exists.kind = "raise"
                   THEN /\ last' = NameCall("GetVault", vault_name, <<req>>, res, exists)
                        /\ UNCHANGED vault
                   ELSE IF exists.value.b
                   THEN /\ vault' = found
                        /\ last' = NameCall("GetVault", vault_name, <<req>>, res, Returned(found))
                   ELSE /\ last' = NameCall("GetVault", vault_name, <<req>>, res,
                                            Raised("RuntimeError", "vault not found"))
                        /\ UNCHANGED vault

DeleteVault ==
    /\ Idle
    /\ UNCHANGED splitVars
    /\ \E vaultArg \in VaultArgs :
          IF vaultArg # "Vault"
          THEN /\ last' = VaultCall("DeleteVault", vaultArg, <<>>, NoResponse, NotAVault)
               /\ UNCHANGED vault
          ELSE \E res \in PlainResponses :
               LET req == Request("DELETE", get_vault_path(vault.vault_id), CommonHeaders, PyNone)
               IN  IF res.status = 204
                   THEN /\ vault' = WithStatus(vault, PyStr(S_deleted))
                        /\ last' = VaultCall("DeleteVault", vaultArg, <<req>>, res,
                                             Returned(PyBool(TRUE)))
                   ELSE /\ last' = VaultCall("DeleteVault", vaultArg, <<req>>, res, Unexpected(res))
                        /\ UNCHANGED vault

VaultExists ==
    /\ Idle
    /\ UNCHANGED splitVars
    /\ \E vaultArg \in VaultArgs, res \in PlainResponses :
          LET vault_id == IF vaultArg = "Vault" THEN vault.vault_id ELSE "v1"
              req == Request("HEAD", get_vault_path(vault_id), CommonHeaders, PyNone)
          IN  /\ vault' = IF vaultArg = "Vault" THEN ExistsStatus(vault, res) ELSE vault
              /\ last' = Call("VaultExists", vaultArg,
                              IF vaultArg = "Vault" THEN "" ELSE vault_id, "", NoPairs,
                              PyNone, PyNone, <<>>, <<req>>, res, ExistsResult(res))

\* the statistics a server reports
StatisticsBodies == {PyStr("statistics")}

StatisticsResponses ==
    {[status |-> 200, body |-> b, headers |-> {}] : b \in StatisticsBodies}
    \cup {[status |-> c, body |-> PyNone, headers |-> {}] : c \in StatusCodes \ {200}}

GetVaultStatistics ==
    /\ Idle
    /\ UNCHANGED splitVars
    /\ \E vaultArg \in VaultArgs :
          IF vaultArg # "Vault"
          THEN /\ last' = VaultCall("GetVaultStatistics", vaultArg, <<>>, NoResponse, NotAVault)
               /\ UNCHANGED vault
          ELSE \E res \in StatisticsResponses :
               LET req == Request("GET", get_vault_path(vault.vault_id), CommonHeaders, PyNone)
               IN  IF res.status = 200
                   THEN /\ vault' = [vault EXCEPT !.statistics = res.body]
                        /\ last' = VaultCall("GetVaultStatistics", vaultArg, <<req>>, res,
                                             Returned(PyBool(TRUE)))
                   ELSE /\ last' = VaultCall("GetVaultStatistics", vaultArg, <<req>>, res,
                                             Unexpected(res))
                        /\ UNCHANGED vault

\* the caller assigns vault.status itself
StatusInputs ==
    {PyNone, PyInt(1), PyInt(5)}
    \cup {PyStr(n) : n \in StatusNames}
    \cup {PyStr(<<"C", "r", "e", "a", "t", "e", "d">>), PyStr(<<"V", "A", "L", "I", "D">>),
          PyStr(<<"0", "1", "2", "3">>), PyStr(<<"a">>), PyStr(<<>>)}

SetStatus ==
    /\ Idle
    /\ UNCHANGED splitVars
    /\ vault.t = "Vault"
    /\ \E value \in StatusInputs :
          LET set == StatusSetter(vault.status, value)
          IN  /\ vault' = [vault EXCEPT !.status = set.status]
              /\ last' = Call("SetStatus", "Vault", "", "", NoPairs, PyNone, value, <<>>,
                              <<>>, NoResponse,
                              IF set.raised THEN Raised("ValueError", "invalid status")
                              ELSE Returned(PyNone))

----------------------------------------------------------------------------
(* client/deuce.py: the block operations *)

\* a Block handed to an operation: one held by the vault's registry, one held
\* by a file's registry, or one the caller holds itself
BlockRef(src, file_id, obj) == [t |-> "Block", src |-> src, file_id |-> file_id, obj |-> obj]

OwnBlocks == {Block("v1", "b1", d) : d \in DataValues}

BlockArgs(v, vaultArg) ==
    {PyStr("b1")}
    \cup {BlockRef("own", "", b) : b \in OwnBlocks}
    \cup (IF vaultArg = "Vault"
          THEN {BlockRef("vault", "", v.blocks[k]) : k \in DOMAIN v.blocks}
               \cup UNION {{BlockRef("file", f, v.files[f].blocks[k]) :
                               k \in DOMAIN v.files[f].blocks} : f \in DOMAIN v.files}
          ELSE {})

\* lines 268-271 (and 300-303, 327-330): the two isinstance checks
BlockArgCheck(vaultArg, block) ==
    IF vaultArg # "Vault" THEN NotAVault
    ELSE IF block.t # "Block" THEN NotABlock
    ELSE Passed

\* lines 277-280: the headers dict UploadBlock builds from self.Headers
UploadHeaders == CommonHeaders \cup {"content-type", "content-length"}

\* line 281 sends headers=self.Headers: the dict built at 277-280 is not passed
UploadBlock ==
    /\ Idle
    /\ UNCHANGED splitVars
    /\ \E vaultArg \in VaultArgs :
       \E block \in BlockArgs(vault, vaultArg) :
          LET checked == BlockArgCheck(vaultArg, block)
          IN  IF checked.kind = "raise"
              THEN /\ last' = BlockCall("UploadBlock", vaultArg, block, <<>>, NoResponse, checked)
                   /\ UNCHANGED vault
              ELSE \E res \in PlainResponses :
                   LET req == Request("PUT", get_block_path(vault.vault_id, block.obj.block_id),
                                      CommonHeaders, block.obj.data)
                   IN  /\ last' = BlockCall("UploadBlock", vaultArg, block, <<req>>, res,
                                            IF res.status = 201 THEN Returned(PyBool(TRUE))
                                            ELSE Unexpected(res))
                       /\ UNCHANGED vault

\* DeleteBlock that drops the deleted block from the vault's registry
DeleteBlock_RemovesLocal ==
    /\ Idle
    /\ UNCHANGED splitVars
    /\ \E vaultArg \in VaultArgs :
       \E block \in BlockArgs(vault, vaultArg) :
          LET checked == BlockArgCheck(vaultArg, block)
          IN  IF checked.kind = "raise"
              THEN /\ last' = BlockCall("DeleteBlock", vaultArg, block, <<>>, NoResponse, checked)
                   /\ UNCHANGED vault
              ELSE \E res \in PlainResponses :
                   LET req == Request("DELETE", get_block_path(vault.vault_id, block.obj.block_id),
                                      CommonHeaders, PyNone)
                   IN  /\ last' = BlockCall("DeleteBlock", vaultArg, block, <<req>>, res,
                                            IF res.status = 204 THEN Returned(PyBool(TRUE))
                                            ELSE Unexpected(res))
                       /\ vault' = IF res.status = 204
                                   THEN [vault EXCEPT !.blocks =
                                            [k \in DOMAIN @ \ {block.obj.block_id} |-> @[k]]]
                                   ELSE vault

DeleteBlock ==
    /\ Idle
    /\ UNCHANGED splitVars
    /\ \E vaultArg \in VaultArgs :
       \E block \in BlockArgs(vault, vaultArg) :
          LET checked == BlockArgCheck(vaultArg, block)
          IN  IF checked.kind = "raise"
              THEN /\ last' = BlockCall("DeleteBlock", vaultArg, block, <<>>, NoResponse, checked)
                   /\ UNCHANGED vault
              ELSE \E res \in PlainResponses :
                   LET req == Request("DELETE", get_block_path(vault.vault_id, block.obj.block_id),
                                      CommonHeaders, PyNone)
                   IN  /\ last' = BlockCall("DeleteBlock", vaultArg, block, <<req>>, res,
                                            IF res.status = 204 THEN Returned(PyBool(TRUE))
                                            ELSE Unexpected(res))
                       /\ UNCHANGED vault

DownloadResponses ==
    {[status |-> 200, body |-> PyBytes(d), headers |-> {}] : d \in SeqsUpTo(Bytes, MaxDataLen)}
    \cup {[status |-> c, body |-> PyNone, headers |-> {}] : c \in StatusCodes \ {200}}

\* line 340: block.data = res.content, seen through whichever registry holds the Block
StoreData(v, block, data) ==
    IF block.src = "vault"
    THEN [v EXCEPT !.blocks[block.obj.block_id].data = data]
    ELSE IF block.src = "file"
    THEN [v EXCEPT !.files[block.file_id].blocks[block.obj.block_id].data = data]
    ELSE v

DownloadBlock ==
    /\ Idle
    /\ UNCHANGED splitVars
    /\ \E vaultArg \in VaultArgs :
       \E block \in BlockArgs(vault, vaultArg) :
          LET checked == BlockArgCheck(vaultArg, block)
          IN  IF checked.kind = "raise"
              THEN /\ last' = BlockCall("DownloadBlock", vaultArg, block, <<>>, NoResponse, checked)
                   /\ UNCHANGED vault
              ELSE \E res \in DownloadResponses :
                   LET req == Request("GET", get_block_path(vault.vault_id, block.obj.block_id),
                                      CommonHeaders, PyNone)
                   IN  IF res.status = 200
                       THEN /\ vault' = StoreData(vault, block, res.body)
                            /\ last' = BlockCall("DownloadBlock", vaultArg,
                                                 [block EXCEPT !.obj.data = res.body],
                                                 <<req>>, res, Returned(PyBool(TRUE)))
                       ELSE /\ last' = BlockCall("DownloadBlock", vaultArg, block, <<req>>, res,
                                                 Unexpected(res))
                            /\ UNCHANGED vault

----------------------------------------------------------------------------
(* client/deuce.py: GetFileBlockList *)

FileListResponses ==
    {[status |-> 200, body |-> PyList(l), headers |-> {}] :
        l \in SeqsUpTo({Pair(b, o) : b \in BlockIds, o \in Offsets}, MaxRespLen)}
    \cup {[status |-> c, body |-> PyNone, headers |-> {}] : c \in StatusCodes \ {200}}

\* lines 531-533: offsets[offset] = block_id for each listed pair
RECURSIVE StoreOffsets(_, _, _)
StoreOffsets(offsets, listed, i) ==
    IF i > Len(listed) THEN offsets
    ELSE StoreOffsets(Put(offsets, listed[i].offset, listed[i].block_id), listed, i + 1)

ListedIds(listed) == [i \in 1..Len(listed) |-> listed[i].block_id]

GetFileBlockList ==
    /\ Idle
    /\ UNCHANGED splitVars
    /\ \E vaultArg \in VaultArgs, file_id \in FileIdInputs, query \in ListQueries :
          LET marker == query[1]
              limit == query[2]
              mk(reqs, res, outcome) ==
                  Call("GetFileBlockList", vaultArg, "", file_id, NoPairs, PyNone,
                       PyList(<<marker, limit>>), <<>>, reqs, res, outcome)
          IN  IF ~FileIdRule(file_id)
              THEN /\ last' = mk(<<>>, NoResponse, Raised("ValidationError", "malformed file_id"))
                   /\ UNCHANGED vault
              ELSE IF ~MetadataBlockIdRuleNoneOkay(marker)
              THEN /\ last' = mk(<<>>, NoResponse, Raised("ValidationError", "malformed marker"))
                   /\ UNCHANGED vault
              ELSE IF ~LimitRuleNoneOkay(limit)
              THEN /\ last' = mk(<<>>, NoResponse, Raised("ValidationError", "malformed limit"))
                   /\ UNCHANGED vault
              ELSE IF vaultArg # "Vault"
              THEN /\ last' = mk(<<>>, NoResponse, NotAVault)
                   /\ UNCHANGED vault
              ELSE IF file_id \notin DOMAIN vault.files
              THEN /\ last' = mk(<<>>, NoResponse, Raised("KeyError", "file_id not in vault"))
                   /\ UNCHANGED vault
              ELSE \E res \in ForQuery(query, FileListResponses) :
                   LET req == Request("GET",
                                      ListUrl(get_fileblocks_path(vault.vault_id, file_id),
                                              marker, limit),
                                      CommonHeaders, PyNone)
                   IN  IF res.status = 200
                       THEN /\ vault' = [vault EXCEPT !.files[file_id].offsets =
                                            StoreOffsets(@, res.body.l, 1)]
                            /\ last' = mk(<<req>>, res, Returned(PyList(ListedIds(res.body.l))))
                       ELSE /\ last' = mk(<<req>>, res, Unexpected(res))
                            /\ UNCHANGED vault

----------------------------------------------------------------------------
(* The caller's own writes to the registries *)

\* vault.blocks[block_id] = Block(project_id, vault_id, block_id): the caller
\* registers a block by its id (AssignBlocksToFile reads only the keys of
\* vault.blocks; the data of a file's blocks is what it measures)
PutVaultBlock ==
    /\ Idle
    /\ UNCHANGED splitVars
    /\ vault.t = "Vault"
    /\ \E b \in BlockIds :
          vault' = [vault EXCEPT !.blocks = Put(@, b, Block(vault.vault_id, b, PyNone))]
    /\ last' = NoCall

\* vault.files[file_id].blocks[block_id] = Block(...)
PutFileBlock ==
    /\ Idle
    /\ UNCHANGED splitVars
    /\ vault.t = "Vault"
    /\ \E f \in DOMAIN vault.files, b \in BlockIds, d \in DataValues :
          vault' = [vault EXCEPT !.files[f].blocks = Put(@, b, Block(vault.vault_id, b, d))]
    /\ last' = NoCall

\* vault.files[file_id].offsets[offset] = block_id
PutFileOffset ==
    /\ Idle
    /\ UNCHANGED splitVars
    /\ vault.t = "Vault"
    /\ \E f \in DOMAIN vault.files, o \in Offsets, b \in BlockIds :
          vault' = [vault EXCEPT !.files[f].offsets = Put(@, o, b)]
    /\ last' = NoCall

----------------------------------------------------------------------------
(* A readable source: the file object a splitter is given *)

\* the byte values of a source: two, so that blocks of one length differ
SourceBytes == {7, 8}

Sources == SeqsUpTo(SourceBytes, MaxSourceLen)

\* an open binary file over the given content, positioned at its start
Reader(content) == [attrs |-> {"read", "tell"}, content |-> content, pos |-> 0]

\* an object exposing only the attributes named
PlainObject(attrs) == [attrs |-> attrs, content |-> <<>>, pos |-> 0]

\* getattr(obj, name) succeeds
HasAttr(obj, name) == name \in obj.attrs

\* stream.tell()
tell(stream) == stream.pos

Min(a, b) == IF a < b THEN a ELSE b

\* stream.read(n): up to n bytes from the current position, which moves past them
read(stream, n) ==
    LET end == Min(stream.pos + n, Len(stream.content))
    IN  [data |-> SubSeq(stream.content, stream.pos + 1, end),
         stream |-> [stream EXCEPT !.pos = end]]

----------------------------------------------------------------------------
(* api/block.py: Block.make_id *)

HexChars == <<"0", "1", "2", "3", "4", "5", "6", "7",
              "8", "9", "a", "b", "c", "d", "e", "f">>

RECURSIVE hexdigest(_)
\* sha1.hexdigest(): SHA-1 has no known collision on the data of the model, so
\* it is stood for by a one-to-one rendering of the bytes in hexadecimal digits
hexdigest(data) ==
    IF Len(data) = 0 THEN <<"d", "a">>
    ELSE <<HexChars[(Head(data) \div 16) + 1], HexChars[(Head(data) % 16) + 1]>>
         \o hexdigest(Tail(data))

\* lines 13-17
make_id(data) == Lower(hexdigest(data))

----------------------------------------------------------------------------
(* api/splitter.py: FileSplitterBase; utils: UniformSplitter *)

NoSplitter == [t |-> "none"]

NoRun == [sizes |-> {}, out |-> <<>>, eos |-> FALSE]

S_processing == PyStr("processing")

\* FileSplitterBase.__init__, lines 15-22, with the chunk_size UniformSplitter adds
UniformSplitter(vault_id, input_io) ==
    [t |-> "UniformSplitter", vault_id |-> vault_id, input_stream |-> input_io,
     state |-> PyNone, chunk_size |-> DefaultChunkSize]

\* _set_state that takes any value
set_state_Unchecked(s, new_state) ==
    [splitter |-> [s EXCEPT !.state = new_state], outcome |-> Returned(PyNone)]

\* _set_state that ignores 'processing'
set_state_NeverProcessing(s, new_state) ==
    IF new_state \in {PyNone, S_processing}
    THEN [splitter |-> [s EXCEPT !.state = PyNone], outcome |-> Returned(PyNone)]
    ELSE [splitter |-> s, outcome |-> Raised("ValueError", "invalid state")]

\* _set_state, lines 28-32
set_state(s, new_state) ==
    IF new_state \in {PyNone, S_processing}
    THEN [splitter |-> [s EXCEPT !.state = new_state], outcome |-> Returned(PyNone)]
    ELSE [splitter |-> s, outcome |-> Raised("ValueError", "invalid state")]

\* lines 48-65: __has_read
has_read(input_io) == HasAttr(input_io, "read") /\ HasAttr(input_io, "tell")

\* the setter asking for read alone
set_input_stream_ReadOnly(s, input_io) ==
    IF s.state = PyNone
    THEN IF HasAttr(input_io, "read")
         THEN [splitter |-> [s EXCEPT !.input_stream = input_io], outcome |-> Returned(PyNone)]
         ELSE [splitter |-> s, outcome |-> Raised("TypeError", "input_io must have a read method")]
    ELSE [splitter |-> s, outcome |-> Raised("RuntimeError", "invalid state")]

\* the input_stream setter, lines 46-73
set_input_stream(s, input_io) ==
    IF s.state = PyNone
    THEN IF has_read(input_io)
         THEN [splitter |-> [s EXCEPT !.input_stream = input_io], outcome |-> Returned(PyNone)]
         ELSE [splitter |-> s, outcome |-> Raised("TypeError", "input_io must have a read method")]
    ELSE [splitter |-> s, outcome |-> Raised("RuntimeError", "invalid state")]

\* _make_block that leaves the data out of the Block
make_block_NoData(s, data) == Block(s.vault_id, make_id(data), PyNone)

\* _make_block, lines 88-90
make_block(s, data) == Block(s.vault_id, make_id(data), PyBytes(data))

\* a configuration: which splitter's key it holds, and the chunk_size under it
Config(key, chunk_size) == [key |-> key, chunk_size |-> chunk_size]

\* configure that takes the chunk_size of any key
configure_AnyKey(s, config) ==
    IF config.key # "" THEN [s EXCEPT !.chunk_size = config.chunk_size] ELSE s

\* UniformSplitter.configure
configure(s, config) ==
    IF config.key = "UniformSplitter" THEN [s EXCEPT !.chunk_size = config.chunk_size] ELSE s

\* UniformSplitter.get_block: the splitter afterwards and the (offset, Block)
\* returned, whose Block is None at the end of the stream
get_block(s) ==
    LET started == set_state(s, S_processing).splitter
        offset == tell(started.input_stream)
        got == read(started.input_stream, started.chunk_size)
        after == [started EXCEPT !.input_stream = got.stream]
    IN  [splitter |-> after,
         result |-> [offset |-> offset,
                     block |-> IF Len(got.data) = 0 THEN PyNone
                               ELSE make_block(after, got.data)]]

RECURSIVE ReadAll(_, _)
\* line 82: [self.get_block() for _ in range(count)]
ReadAll(s, count) ==
    IF count <= 0 THEN [splitter |-> s, results |-> <<>>]
    ELSE LET one == get_block(s)
             rest == ReadAll(one.splitter, count - 1)
         IN  [splitter |-> rest.splitter, results |-> <<one.result>> \o rest.results]

HasBlock(result) == result.block # PyNone

\* get_blocks, lines 75-86: every read made, and the results kept
get_blocks(s, count) ==
    LET all == ReadAll(s, count)
    IN  [splitter |-> all.splitter, results |-> all.results,
         blocks |-> SelectSeq(all.results, HasBlock)]

----------------------------------------------------------------------------
(* A caller driving one splitter *)

\* what a call on the splitter was given, every (offset, Block) its reads
\* produced, and how it ended
SplitCall(op, arg, results, outcome) ==
    [op |-> op, arg |-> arg, results |-> results, outcome |-> outcome]

\* the reads of the current source so far: the chunk sizes they were made
\* with, the (offset, Block) results that hold a Block, and whether a read
\* has found the end of the stream
Record(r, chunk_size, results) ==
    IF Len(results) = 0 THEN r
    ELSE [sizes |-> r.sizes \cup {chunk_size},
          out |-> r.out \o SelectSeq(results, HasBlock),
          eos |-> r.eos \/ \E i \in 1..Len(results) : ~HasBlock(results[i])]

Configs ==
    {Config(k, c) : k \in {"UniformSplitter", "NonUniformSplitter"}, c \in 1..MaxChunk}
    \cup {Config("", 0)}

Configure ==
    /\ Idle
    /\ UNCHANGED <<vault, run>>
    /\ \E config \in Configs :
          /\ splitter' = configure(splitter, config)
          /\ last' = SplitCall("configure", config, <<>>, Returned(PyNone))

StateInputs ==
    {PyNone, S_processing, PyStr("bad state"), PyStr("Processing"), PyStr("idle"), PyInt(0)}

SetState ==
    /\ Idle
    /\ UNCHANGED <<vault, run>>
    /\ \E new_state \in StateInputs :
          LET set == set_state(splitter, new_state)
          IN  /\ splitter' = set.splitter
              /\ last' = SplitCall("_set_state", new_state, <<>>, set.outcome)

\* what a caller assigns to input_stream: a fresh reader, or an object
\* lacking read, tell or both
Candidates ==
    {Reader(src) : src \in Sources}
    \cup {PlainObject(a) : a \in {{}, {"read"}, {"tell"}}}

SetInputStream ==
    /\ Idle
    /\ UNCHANGED vault
    /\ \E input_io \in Candidates :
          LET set == set_input_stream(splitter, input_io)
          IN  /\ splitter' = set.splitter
              /\ run' = IF set.outcome.kind = "raise" THEN run ELSE NoRun
              /\ last' = SplitCall("input_stream", input_io, <<>>, set.outcome)

GetBlock ==
    /\ Idle
    /\ UNCHANGED vault
    /\ LET got == get_block(splitter)
       IN  /\ splitter' = got.splitter
           /\ run' = Record(run, splitter.chunk_size, <<got.result>>)
           /\ last' = SplitCall("get_block", PyNone, <<got.result>>,
                                Returned(PyList(<<got.result>>)))

GetBlocks ==
    /\ Idle
    /\ UNCHANGED vault
    /\ \E count \in 0..MaxCount :
          LET got == get_blocks(splitter, count)
          IN  /\ splitter' = got.splitter
              /\ run' = Record(run, splitter.chunk_size, got.results)
              /\ last' = SplitCall("get_blocks", PyInt(count), got.results,
                                   Returned(PyList(got.blocks)))

\* block.data = value on the Block a get_block has just returned (block.py 65-67)
SetBlockData ==
    /\ last.op = "get_block"
    /\ HasBlock(last.outcome.value.l[1])
    /\ UNCHANGED <<vault, splitter, run>>
    /\ \E value \in {PyNone} \cup {PyBytes(d) : d \in SeqsUpTo(SourceBytes, 1)} :
          last' = [last EXCEPT !.op = "Block.data", !.arg = value,
                               !.outcome.value.l[1].block.data = value]

\* a caller holding a splitter over some source
InitSplit ==
    /\ vault = NoVault
    /\ last = NoCall
    /\ \E src \in Sources : splitter = UniformSplitter("v1", Reader(src))
    /\ run = NoRun

NextSplit ==
    \/ Configure
    \/ SetState
    \/ SetInputStream
    \/ GetBlock
    \/ GetBlocks
    \/ SetBlockData
    \/ Continue

SpecSplit == InitSplit /\ [][NextSplit]_vars

----------------------------------------------------------------------------
(* shell.py: the commands that take --vault-name *)

\* lines 126-135: a command runs in a process of its own, which builds the
\* client and no Vault; what it has of the vault is arguments.vault_name
InShell == vault = NoVault

\* line 166: deuceclient.GetVaultStatistics(arguments.vault_name)
vault_stats == InShell /\ GetVaultStatistics

\* line 177: deuceclient.DeleteVault(arguments.vault_name)
vault_delete == InShell /\ DeleteVault

\* lines 186-188: deuceclient.GetBlockList(arguments.vault_name, marker=..., limit=...)
block_list == InShell /\ GetBlockList

\* lines 199-201: deuceclient.UploadBlock(arguments.vault_name,
\* arguments.blockid, arguments.blockcontent), three arguments for the
\* (vault, block) the method takes: the call itself raises TypeError
block_upload ==
    /\ InShell
    /\ Idle
    /\ UNCHANGED <<vault, splitVars>>
    /\ \E blockid \in BlockIds :
          last' = BlockCall("UploadBlock", "str", PyStr(blockid), <<>>, NoResponse,
                            Raised("TypeError", "takes 3 positional arguments but 4 were given"))

\* line 212: deuceclient.CreateFile(arguments.vault_name)
file_create == InShell /\ CreateFile

----------------------------------------------------------------------------
(* Specifications *)

\* a caller holding a Vault fills its registries and commits files
InitAssign ==
    /\ vault = NewVault("v1")
    /\ last = NoCall
    /\ splitter = NoSplitter
    /\ run = NoRun

NextAssign ==
    \/ CreateFile
    \/ PutVaultBlock
    \/ PutFileBlock
    \/ PutFileOffset
    \/ AssignBlocksToFile
    \/ Continue

SpecAssign == InitAssign /\ [][NextAssign]_vars

\* a caller drives a vault through the client alone
Init ==
    /\ vault = NoVault
    /\ last = NoCall
    /\ splitter = NoSplitter
    /\ run = NoRun

Next ==
    \/ MakeVault
    \/ CreateVault
    \/ GetVault
    \/ DeleteVault
    \/ VaultExists
    \/ GetVaultStatistics
    \/ GetBlockList
    \/ UploadBlock
    \/ DeleteBlock
    \/ DownloadBlock
    \/ CreateFile
    \/ AssignBlocksToFile
    \/ GetFileBlockList
    \/ SetStatus
    \/ vault_stats
    \/ vault_delete
    \/ block_list
    \/ block_upload
    \/ file_create
    \/ Continue

Spec == Init /\ [][Next]_vars

----------------------------------------------------------------------------
(* Properties of AssignBlocksToFile, stated on the call `last` records and  *)
(* the registries it was made on (the call leaves them as they were)        *)

AssignCalled == last.op = "AssignBlocksToFile"

\* the call got as far as the file: a Vault and the id of one of its files
AssignOnFile ==
    /\ AssignCalled
    /\ last.vaultArg = "Vault"
    /\ last.file_id \in DOMAIN vault.files

TheFile == vault.files[last.file_id]

ThePairs == last.block_ids.pairs

ExplicitCall == AssignOnFile /\ last.block_ids.given

DerivedCall == AssignOnFile /\ ~last.block_ids.given

InVault(i) == ThePairs[i].block_id \in DOMAIN vault.blocks

InFile(i) == ThePairs[i].block_id \in DOMAIN TheFile.blocks

Assigned(i) == ThePairs[i].offset \in DOMAIN TheFile.offsets

Matches(i) == TheFile.offsets[ThePairs[i].offset] = ThePairs[i].block_id

PairHolds(i) == InVault(i) /\ InFile(i) /\ Assigned(i) /\ Matches(i)

Dangling(o) == TheFile.offsets[o] \notin DOMAIN TheFile.blocks

Rejected == last.outcome.kind = "raise" /\ last.reqs = <<>>

Sent == Len(last.reqs) = 1

ThePayload == last.reqs[1].body.l

\* one of the validation failures of the call holds of its arguments
ValidationFails ==
    \/ last.vaultArg # "Vault"
    \/ last.file_id \notin DOMAIN vault.files
    \/ /\ last.block_ids.given
       /\ \/ ThePairs = <<>>
          \/ \E i \in 1..Len(ThePairs) : ~PairHolds(i)
    \/ /\ ~last.block_ids.given
       /\ \/ DOMAIN TheFile.offsets = {}
          \/ DOMAIN TheFile.blocks = {}
          \/ \E o \in DOMAIN TheFile.offsets : Dangling(o)

\* C1: a call of AssignBlocksToFile whose validation fails (vault not a
\* Vault, file_id not in vault.files, empty explicit list, block not in
\* vault, block not in file, offset not assigned, offset/block mismatch,
\* empty offset map, empty block map, dangling offset reference) raises
\* without having sent any request: no POST is issued for it.
C1_NoPostWhenValidationFails ==
    (AssignCalled /\ ValidationFails) =>
        /\ last.reqs = <<>>
        /\ last.outcome.kind = "raise"
        /\ last.outcome.exc \in {"ValidationError", "TypeError", "KeyError", "ValueError"}

\* a two-pair call whose first pair passes and whose second pair is stale
C1_Witness ==
    /\ ExplicitCall
    /\ Len(ThePairs) = 2
    /\ PairHolds(1)
    /\ ~PairHolds(2)
    /\ Rejected

\* C2: AssignBlocksToFile never mutates local state: whatever the outcome
\* (validation error, RuntimeError on a non-200 response, success), the
\* vault's block and file registries, and with them every file's blocks and
\* offsets maps, are the same after the call as before it.
C2_AssignLeavesRegistries ==
    [][(Idle /\ last'.op = "AssignBlocksToFile") =>
          /\ vault'.blocks = vault.blocks
          /\ vault'.files = vault.files
          /\ vault' = vault]_vars

\* a call that went through, on a file with blocks and offsets to lose
C2_Witness ==
    /\ DerivedCall
    /\ last.outcome.kind = "return"
    /\ DOMAIN TheFile.offsets # {}
    /\ DOMAIN vault.blocks # {}

\* the error the claim assigns to a failing pair: that of its first failing check
FirstFailingCheck(i) ==
    IF ~InVault(i) THEN Raised("KeyError", "block not in vault")
    ELSE IF ~InFile(i) THEN Raised("KeyError", "block not in file")
    ELSE IF ~Assigned(i) THEN Raised("KeyError", "offset not assigned")
    ELSE Raised("ValueError", "offset/block mismatch")

FirstFailingPair ==
    CHOOSE i \in 1..Len(ThePairs) : ~PairHolds(i) /\ \A j \in 1..(i - 1) : PairHolds(j)

\* C3: with explicit pairs, the pairs are examined in the caller's order and
\* each pair is checked for: block_id in the vault's registry (KeyError),
\* block_id in the file's registry (KeyError), offset a key of the file's
\* offset map (KeyError), file.offsets[offset] = block_id (ValueError). The
\* error raised is that of the first failing check of the first failing
\* pair, and validation passes iff all four checks hold for every pair.
C3_FirstFailingCheckOfFirstFailingPair ==
    (ExplicitCall /\ ThePairs # <<>>) =>
        IF \A i \in 1..Len(ThePairs) : PairHolds(i)
        THEN Sent /\ last.outcome.err \notin
                 {"block not in vault", "block not in file", "offset not assigned",
                  "offset/block mismatch"}
        ELSE Rejected /\ last.outcome = FirstFailingCheck(FirstFailingPair)

\* the second pair fails two checks at once, after a first pair that passes
C3_Witness ==
    /\ ExplicitCall
    /\ Len(ThePairs) = 2
    /\ PairHolds(1)
    /\ InVault(2) /\ ~InFile(2) /\ ~Assigned(2)
    /\ last.outcome = Raised("KeyError", "block not in file")

\* some explicit pair's offset maps to a different block_id in the offset map
StalePair(i) == Assigned(i) /\ ~Matches(i)

\* C4 as stated: the call fails with 'offset/block mismatch' whenever an
\* explicit pair's offset maps to a different block_id in the offset map.
C4_AlwaysMismatchError ==
    (ExplicitCall /\ \E i \in 1..Len(ThePairs) : StalePair(i)) =>
        last.outcome = Raised("ValueError", "offset/block mismatch")

\* C4: whenever an explicit pair's offset maps to a different block_id in
\* the file's offset map the call fails before any request; the error is
\* 'offset/block mismatch' (ValueError) when no earlier check fails, that is
\* when every earlier pair passes and the pair's block_id is in the vault's
\* and in the file's registry, and otherwise the error of that earlier check.
C4_MismatchUnlessEarlierFailure ==
    (ExplicitCall /\ \E i \in 1..Len(ThePairs) : StalePair(i)) =>
        /\ Rejected
        /\ \A i \in 1..Len(ThePairs) :
              (StalePair(i) /\ InVault(i) /\ InFile(i) /\ \A j \in 1..(i - 1) : PairHolds(j))
                  => last.outcome = Raised("ValueError", "offset/block mismatch")
        /\ last.outcome # Raised("ValueError", "offset/block mismatch")
              => \E i \in 1..Len(ThePairs) : ~InVault(i) \/ ~InFile(i) \/ ~Assigned(i)

\* a stale second pair, reported as a mismatch
C4_Witness ==
    /\ ExplicitCall
    /\ Len(ThePairs) = 2
    /\ PairHolds(1)
    /\ StalePair(2)
    /\ last.outcome = Raised("ValueError", "offset/block mismatch")

EmptyInputErrors == {"empty block_ids", "empty offsets", "empty blocks"}

\* C5: the call fails with an empty-input ValueError when the explicit list
\* is supplied but empty and, when no list is supplied, whenever the file's
\* offset map or block map is empty; with a non-empty explicit list the
\* emptiness of the file's own maps never decides the error.
C5_EmptyInput ==
    AssignOnFile =>
        /\ (last.block_ids.given /\ ThePairs = <<>>)
              => Rejected /\ last.outcome = Raised("ValueError", "empty block_ids")
        /\ (~last.block_ids.given
                /\ (DOMAIN TheFile.offsets = {} \/ DOMAIN TheFile.blocks = {}))
              => /\ Rejected
                 /\ last.outcome.exc = "ValueError"
                 /\ last.outcome.err \in {"empty offsets", "empty blocks"}
        /\ (last.block_ids.given /\ ThePairs # <<>>)
              => last.outcome.err \notin EmptyInputErrors
        /\ (~last.block_ids.given
                /\ DOMAIN TheFile.offsets # {} /\ DOMAIN TheFile.blocks # {})
              => last.outcome.err \notin EmptyInputErrors

\* a non-empty explicit list against a file whose two maps are empty
C5_Witness ==
    /\ ExplicitCall
    /\ ThePairs # <<>>
    /\ DOMAIN TheFile.offsets = {}
    /\ DOMAIN TheFile.blocks = {}
    /\ InVault(1)
    /\ last.outcome = Raised("KeyError", "block not in file")

\* C6: without explicit pairs and with both file maps non-empty, the call
\* fails with 'dangling offset reference' (KeyError) iff some entry of the
\* offset map names a block_id that is not a key of the file's block map;
\* otherwise validation passes and the request is sent.
C6_DanglingOffset ==
    (DerivedCall /\ DOMAIN TheFile.offsets # {} /\ DOMAIN TheFile.blocks # {}) =>
        IF \E o \in DOMAIN TheFile.offsets : Dangling(o)
        THEN Rejected /\ last.outcome = Raised("KeyError", "dangling offset reference")
        ELSE Sent /\ last.outcome.err # "dangling offset reference"

\* two offsets, of which exactly one dangles
C6_Witness ==
    /\ DerivedCall
    /\ \E o1, o2 \in DOMAIN TheFile.offsets : ~Dangling(o1) /\ Dangling(o2)
    /\ last.outcome = Raised("KeyError", "dangling offset reference")

\* the size the claim gives an entry: the length of the block's data in the
\* file's registry, 0 when the block has no data
SizeInFile(id) ==
    IF TheFile.blocks[id].data = PyNone THEN 0 ELSE Len(TheFile.blocks[id].data.d)

\* C7: once validation has passed, the payload POSTed has exactly one entry
\* {id, offset, size} per explicit pair, in the caller's order and with
\* duplicates kept, or, without an explicit list, exactly one entry per
\* entry of the file's offset map; each entry's size is the length of that
\* block's data in the file's block registry (0 when it has no data).
C7_Payload ==
    (AssignOnFile /\ Sent) =>
        /\ last.reqs[1].method = "POST"
        /\ \A i \in 1..Len(ThePayload) : ThePayload[i].size = SizeInFile(ThePayload[i].id)
        /\ last.block_ids.given =>
              /\ Len(ThePayload) = Len(ThePairs)
              /\ \A i \in 1..Len(ThePairs) :
                    /\ ThePayload[i].id = ThePairs[i].block_id
                    /\ ThePayload[i].offset = ThePairs[i].offset
        /\ ~last.block_ids.given =>
              /\ Len(ThePayload) = Cardinality(DOMAIN TheFile.offsets)
              /\ \A o \in DOMAIN TheFile.offsets :
                    \E i \in 1..Len(ThePayload) :
                       /\ ThePayload[i].offset = o
                       /\ ThePayload[i].id = TheFile.offsets[o]
                       /\ \A j \in 1..Len(ThePayload) : ThePayload[j].offset = o => j = i

\* the same pair given twice, for a block that has data
C7_Witness ==
    /\ ExplicitCall
    /\ Sent
    /\ Len(ThePairs) = 2
    /\ ThePairs[1] = ThePairs[2]
    /\ Len(ThePayload) = 2
    /\ ThePayload[2].size = 1

PayloadIds == {ThePayload[i].id : i \in 1..Len(ThePayload)}

ReturnedIds == {last.outcome.value.l[i] : i \in 1..Len(last.outcome.value.l)}

----------------------------------------------------------------------------
(* Properties of the Vault status *)

\* the step is a call of op
Calls(op) == Idle /\ last'.op = op

\* str is name up to the case of its letters
CaseVariantOf(str, name) ==
    /\ Len(str) = Len(name)
    /\ \A i \in 1..Len(str) :
          \/ str[i] = name[i]
          \/ \E k \in 1..Len(UpperChars) : UpperChars[k] = str[i] /\ LowerChars[k] = name[i]

\* C9 as stated: the status is always one of the five names; assigning None
\* yields 'unknown', assigning one of the five names yields that name, and
\* assigning any other string or any non-string raises ValueError.
C9_OtherStringsRejected ==
    /\ vault.t = "Vault" => VaultStatus(vault) \in StatusNames
    /\ last.op = "SetStatus" =>
          IF last.value = PyNone
          THEN last.outcome.kind = "return" /\ VaultStatus(vault) = S_unknown
          ELSE IF last.value.t = "str" /\ last.value.s \in StatusNames
          THEN last.outcome.kind = "return" /\ VaultStatus(vault) = last.value.s
          ELSE last.outcome = Raised("ValueError", "invalid status")

\* C9: a Vault's status is 'unknown' after construction and is always one of
\* unknown, created, deleted, valid, invalid: assigning None yields
\* 'unknown', assigning a string that is one of the five names up to letter
\* case yields that name in lower case, and assigning any other string or
\* any non-string raises ValueError and leaves the status unchanged.
C9_StatusAssignment ==
    [][/\ vault'.t = "Vault" => VaultStatus(vault') \in StatusNames
       /\ (Calls("Vault") /\ last'.outcome.kind = "return")
             => VaultStatus(vault') = S_unknown
       /\ Calls("SetStatus") =>
             IF last'.value = PyNone
             THEN last'.outcome.kind = "return" /\ VaultStatus(vault') = S_unknown
             ELSE IF /\ last'.value.t = "str"
                     /\ \E n \in StatusNames : CaseVariantOf(last'.value.s, n)
             THEN /\ last'.outcome.kind = "return"
                  /\ CaseVariantOf(last'.value.s, VaultStatus(vault'))
                  /\ VaultStatus(vault') \in StatusNames
             ELSE /\ last'.outcome = Raised("ValueError", "invalid status")
                  /\ vault' = vault]_vars

\* 'VALID' was assigned to a Vault that was not valid, and the status is 'valid'
C9_Witness ==
    /\ last.op = "SetStatus"
    /\ last.value = PyStr(<<"V", "A", "L", "I", "D">>)
    /\ last.outcome.kind = "return"
    /\ VaultStatus(vault) = S_valid

\* the client operations that are given a Vault and are not about its existence
StatusNeutralOps ==
    {"GetVaultStatistics", "GetBlockList", "UploadBlock", "DeleteBlock", "DownloadBlock",
     "CreateFile", "AssignBlocksToFile", "GetFileBlockList"}

----------------------------------------------------------------------------
(* Claims C11..C17: the splitter *)

SplitCalled(op) == last.op = op

TheSource == splitter.input_stream.content

Ceil(a, b) == (a + b - 1) \div b

RECURSIVE Concat(_, _)
\* the data of the blocks of out from the i-th on, end to end
Concat(out, i) ==
    IF i > Len(out) THEN <<>> ELSE out[i].block.data.d \o Concat(out, i + 1)

\* the current source was read to its end with one chunk size throughout
ReadToEnd == splitter.t = "UniformSplitter" /\ run.eos /\ Cardinality(run.sizes) = 1

TheChunk == CHOOSE c \in run.sizes : TRUE

\* C11: a source of length L read to its end with chunk size C > 0 yields
\* ceil(L/C) blocks (none when L = 0), the k-th (from 0) at offset k*C, each
\* of length C but the last, which has length L mod C (C when C divides L),
\* and the blocks' data end to end are the source.
C11_SplitReproducesSource ==
    ReadToEnd =>
        LET C == TheChunk
            L == Len(TheSource)
            n == Len(run.out)
        IN  /\ n = Ceil(L, C)
            /\ \A k \in 0..(n - 1) :
                  /\ run.out[k + 1].offset = k * C
                  /\ BlockLen(run.out[k + 1].block) =
                        IF k < n - 1 \/ L % C = 0 THEN C ELSE L % C
            /\ Concat(run.out, 1) = TheSource

\* a source of three bytes read in chunks of two: a full block, then a short one
C11_Witness ==
    /\ ReadToEnd
    /\ TheChunk = 2
    /\ Len(TheSource) = 3
    /\ Len(run.out) = 2
    /\ BlockLen(run.out[2].block) = 1
    /\ run.out[1].block.data.d # <<7, 7>>

\* the stream position a get_blocks call started from, and the blocks the
\* source still held then
BlocksLeft(pos) == Ceil(Len(TheSource) - pos, splitter.chunk_size)

\* C12: get_blocks(count) reads at most count times, returns min(count, n)
\* blocks in read order without raising when n blocks remain, and makes no
\* read after one has found the end of the stream.
C12_StopsAtEndOfStream ==
    SplitCalled("get_blocks") =>
        LET count == last.arg.n
            reads == last.results
        IN  /\ Len(reads) <= count
            /\ last.outcome.kind = "return"
            /\ last.outcome.value.l = SelectSeq(reads, HasBlock)
            /\ count = 0 => last.outcome.value.l = <<>>
            /\ count > 0 =>
                  Len(last.outcome.value.l) = Min(count, BlocksLeft(reads[1].offset))
            /\ \A i \in 1..Len(reads) : ~HasBlock(reads[i]) => i = Len(reads)

\* C13: assigning input_stream succeeds only when idle and the candidate has
\* read and tell; when processing it raises RuntimeError whatever the
\* candidate; when idle and read or tell is missing it raises TypeError; a
\* failed assignment leaves the held input_stream, and in any idle state
\* (so also after a reset) a proper candidate is taken.
C13_InputStreamAssignment ==
    [][(Idle /\ last'.op = "input_stream") =>
          LET input_io == last'.arg
          IN  IF splitter.state # PyNone
              THEN /\ last'.outcome.kind = "raise"
                   /\ last'.outcome.exc = "RuntimeError"
                   /\ splitter' = splitter
              ELSE IF HasAttr(input_io, "read") /\ HasAttr(input_io, "tell")
              THEN /\ last'.outcome.kind = "return"
                   /\ splitter' = [splitter EXCEPT !.input_stream = input_io]
              ELSE /\ last'.outcome.kind = "raise"
                   /\ last'.outcome.exc = "TypeError"
                   /\ splitter' = splitter]_vars

\* a proper reader refused because the splitter is processing
C13_Witness ==
    /\ SplitCalled("input_stream")
    /\ last.outcome.exc = "RuntimeError"
    /\ has_read(last.arg)
    /\ splitter.state = S_processing
    /\ splitter.input_stream # last.arg

\* a call that attempts a read
ReadCall(call) ==
    call.op = "get_block" \/ (call.op = "get_blocks" /\ call.arg.n > 0)

\* C14: a splitter starts idle; a read attempt leaves it processing; once
\* processing, only _set_state(None) makes it idle again.
C14_IdleUntilFirstRead ==
    /\ splitter.state = PyNone
    /\ [][/\ (Idle /\ ReadCall(last')) => splitter'.state = S_processing
          /\ (splitter.state = S_processing /\ splitter'.state # S_processing)
                => (last'.op = "_set_state" /\ last'.arg = PyNone)]_vars

\* a get_blocks that ran into the end of the stream and left the splitter processing
C14_Witness ==
    /\ SplitCalled("get_blocks")
    /\ \E i \in 1..Len(last.results) : ~HasBlock(last.results[i])
    /\ splitter.state = S_processing

\* C15: the state is always None or 'processing'; _set_state with any other
\* value raises ValueError and leaves the state as it was.
C15_TwoStates ==
    /\ splitter.state \in {PyNone, S_processing}
    /\ [][/\ splitter'.state \in {PyNone, S_processing}
          /\ (Idle /\ last'.op = "_set_state") =>
                IF last'.arg \in {PyNone, S_processing}
                THEN last'.outcome.kind = "return" /\ splitter'.state = last'.arg
                ELSE /\ last'.outcome.kind = "raise"
                     /\ last'.outcome.exc = "ValueError"
                     /\ splitter' = splitter]_vars

\* 'Processing' refused while the splitter is processing
C15_Witness ==
    /\ SplitCalled("_set_state")
    /\ last.arg = PyStr("Processing")
    /\ last.outcome.exc = "ValueError"
    /\ splitter.state = S_processing

\* C16: chunk_size is 1,048,576 after construction; configure with the
\* UniformSplitter key sets it to the value given; configure without that key
\* changes nothing of the splitter and raises nothing.
C16_Configure ==
    /\ splitter.chunk_size = DefaultChunkSize
    /\ [][(Idle /\ last'.op = "configure") =>
             /\ last'.outcome.kind = "return"
             /\ IF last'.arg.key = "UniformSplitter"
                THEN splitter' = [splitter EXCEPT !.chunk_size = last'.arg.chunk_size]
                ELSE splitter' = splitter]_vars

\* a configuration for another splitter passed to one still at the default
C16_Witness ==
    /\ SplitCalled("configure")
    /\ last.arg.key = "NonUniformSplitter"
    /\ last.arg.chunk_size # 0
    /\ splitter.chunk_size = DefaultChunkSize
    /\ splitter.state = S_processing

\* the Blocks a call on the splitter has handed out
BlocksHeld ==
    IF last.op \in {"get_block", "get_blocks", "Block.data"}
    THEN {last.outcome.value.l[i].block : i \in 1..Len(last.outcome.value.l)} \ {PyNone}
    ELSE {}

\* C17: whenever a Block holds data, its block_id is the digest of that data.
C17_BlockIdIsDigestOfData ==
    \A b \in BlocksHeld : b.data # PyNone => b.block_id = make_id(b.data.d)

----------------------------------------------------------------------------
(* Claims C18..C20: the requests of the client *)

\* the call just made
Called(op) == last.op = op

\* C18: UploadBlock issues one PUT to the block's path, with a content-type
\* header and the block's data as body; it returns True on 201 and raises
\* RuntimeError on any other status.
C18_UploadSendsOctetStream ==
    (Called("UploadBlock") /\ last.outcome.exc # "TypeError") =>
        /\ Len(last.reqs) = 1
        /\ last.reqs[1].method = "PUT"
        /\ last.reqs[1].path = get_block_path(vault.vault_id, last.block.obj.block_id)
        /\ "content-type" \in last.reqs[1].headers
        /\ last.reqs[1].body = last.block.obj.data
        /\ IF last.res.status = 201
           THEN last.outcome = Returned(PyBool(TRUE))
           ELSE last.outcome.kind = "raise" /\ last.outcome.exc = "RuntimeError"

\* C19: CreateFile registers a File exactly when the POST returns 201 with
\* both x-file-id and location, under the id returned and with the location
\* as url; a non-Vault argument (TypeError), another status (RuntimeError) or
\* a 201 lacking a header (KeyError) leaves vault.files as it was.
C19_CreateFileRegisters ==
    [][Calls("CreateFile") =>
          IF last'.vaultArg # "Vault"
          THEN /\ last'.outcome.exc = "TypeError"
               /\ last'.reqs = <<>>
               /\ vault' = vault
          ELSE IF last'.res.status # 201
          THEN /\ last'.outcome.exc = "RuntimeError"
               /\ vault' = vault
          ELSE IF HasHeader(last'.res, "x-file-id") /\ HasHeader(last'.res, "location")
          THEN LET file_id == Header(last'.res, "x-file-id")
               IN  /\ last'.outcome = Returned(PyStr(file_id))
                   /\ DOMAIN vault'.files = DOMAIN vault.files \cup {file_id}
                   /\ vault'.files[file_id].file_id = file_id
                   /\ vault'.files[file_id].url = Header(last'.res, "location")
                   /\ \A f \in DOMAIN vault.files \ {file_id} :
                         vault'.files[f] = vault.files[f]
          ELSE /\ last'.outcome.exc = "KeyError"
               /\ vault' = vault]_vars

\* a 201 that names the file but not its location, answered to a vault
\* that already holds a file
C19_Witness ==
    /\ Called("CreateFile")
    /\ last.res.status = 201
    /\ HasHeader(last.res, "x-file-id")
    /\ last.outcome.exc = "KeyError"
    /\ DOMAIN vault.files # {}

\* the operations of DeuceClient
ClientOps ==
    {"CreateVault", "GetVault", "DeleteVault", "VaultExists", "GetVaultStatistics",
     "GetBlockList", "UploadBlock", "DeleteBlock", "DownloadBlock", "CreateFile",
     "AssignBlocksToFile", "GetFileBlockList"}

\* the status an operation takes for success
SuccessCode(op) ==
    IF op \in {"CreateVault", "UploadBlock", "CreateFile"} THEN 201
    ELSE IF op \in {"GetVault", "DeleteVault", "VaultExists", "DeleteBlock"} THEN 204
    ELSE 200

\* a call of a client operation that got a response
Answered == last.op \in ClientOps /\ Len(last.reqs) > 0

\* the call raised a RuntimeError telling the status code and the body
CarriesStatusAndBody ==
    /\ last.outcome.kind = "raise"
    /\ last.outcome.exc = "RuntimeError"
    /\ last.outcome.value = [status_code |-> last.res.status, text |-> last.res.body]

\* C20 as stated: an operation sends at most one request, and any status
\* but its success code (or 404, for VaultExists) makes it raise a
\* RuntimeError carrying the status code and the body.
C20_UnlistedStatusCarriesStatusAndBody ==
    /\ last.op \in ClientOps => Len(last.reqs) <= 1
    /\ (Answered /\ last.res.status # SuccessCode(last.op)
               /\ ~(last.op = "VaultExists" /\ last.res.status = 404))
          => CarriesStatusAndBody

\* C20, amended: as stated, but GetVault, whose request is the HEAD of
\* VaultExists, raises on 404 a RuntimeError that names the vault and not the
\* status code and body.
C20_OneRequestNoRetry ==
    /\ last.op \in ClientOps => Len(last.reqs) <= 1
    /\ (Answered /\ last.res.status # SuccessCode(last.op))
          => IF last.res.status = 404 /\ last.op = "VaultExists"
             THEN last.outcome = Returned(PyBool(FALSE))
             ELSE IF last.res.status = 404 /\ last.op = "GetVault"
             THEN /\ last.outcome.kind = "raise"
                  /\ last.outcome.exc = "RuntimeError"
                  /\ last.outcome.value = PyNone
             ELSE CarriesStatusAndBody

\* a download answered with a server error
C20_Witness ==
    /\ Called("DownloadBlock")
    /\ Len(last.reqs) = 1
    /\ last.res.status = 500
    /\ last.outcome.exc = "RuntimeError"
    /\ last.outcome.value.status_code = 500

----------------------------------------------------------------------------
(* Claims C21..C28 *)

\* C21: after any sequence of operations, a successful GetFileBlockList
\* included, every block_id stored in a file's offsets is a key of that
\* file's blocks.
C21_OffsetsReferToFileBlocks ==
    vault.t = "Vault" =>
        \A f \in DOMAIN vault.files :
            \A o \in DOMAIN vault.files[f].offsets :
                vault.files[f].offsets[o] \in DOMAIN vault.files[f].blocks

\* the operations that take a Vault, and those that also take a Block
VaultOps ==
    {"DeleteVault", "GetVaultStatistics", "GetBlockList", "UploadBlock", "DeleteBlock",
     "DownloadBlock", "CreateFile", "AssignBlocksToFile", "GetFileBlockList"}

BlockOps == {"UploadBlock", "DeleteBlock", "DownloadBlock"}

\* the arguments the decorators of a call validate are well-formed
DecoratorsPass(call) ==
    /\ call.op \in {"AssignBlocksToFile", "GetFileBlockList"} => FileIdRule(call.file_id)
    /\ call.op \in {"GetBlockList", "GetFileBlockList"} =>
          /\ MetadataBlockIdRuleNoneOkay(call.value.l[1])
          /\ LimitRuleNoneOkay(call.value.l[2])

\* a call given a string for its vault, or a Vault and a non-Block for its block
WrongEntity(call) ==
    \/ call.op \in VaultOps /\ call.vaultArg # "Vault"
    \/ call.op \in BlockOps /\ call.vaultArg = "Vault" /\ call.block.t # "Block"

\* C22: an operation that expects a Vault raises TypeError when given a
\* string, and one that expects a Block raises TypeError for a non-Block
\* (its other arguments being well-formed); the error comes before any
\* request and leaves the vault as it was.
C22_WrongEntityRaisesTypeError ==
    [][(Idle /\ WrongEntity(last') /\ DecoratorsPass(last')) =>
          /\ last'.outcome.kind = "raise"
          /\ last'.outcome.exc = "TypeError"
          /\ last'.reqs = <<>>
          /\ last'.res = NoResponse
          /\ vault' = vault]_vars

\* an upload given a Vault and a block id in place of the Block
C22_Witness ==
    /\ Called("UploadBlock")
    /\ last.vaultArg = "Vault"
    /\ last.block = PyStr("b1")
    /\ last.outcome.exc = "TypeError"
    /\ last.reqs = <<>>

\* C23: DeleteBlock leaves the local Vault as it was, whatever the outcome:
\* True on 204 and RuntimeError on any other status, with the vault's block
\* registry and every file's blocks and offsets unchanged.
C23_DeleteBlockKeepsLocalState ==
    [][Calls("DeleteBlock") =>
          /\ vault' = vault
          /\ Len(last'.reqs) = 1 =>
                /\ last'.reqs[1].method = "DELETE"
                /\ IF last'.res.status = 204
                   THEN last'.outcome = Returned(PyBool(TRUE))
                   ELSE /\ last'.outcome.kind = "raise"
                        /\ last'.outcome.exc = "RuntimeError"]_vars

\* a block of the vault's registry deleted on the server and still registered
C23_Witness ==
    /\ Called("DeleteBlock")
    /\ last.res.status = 204
    /\ last.outcome = Returned(PyBool(TRUE))
    /\ last.block.src = "vault"
    /\ last.block.obj.block_id \in DOMAIN vault.blocks

\* C24: a successful GetVaultStatistics (HTTP 200) updates the Vault's
\* status besides caching the statistics: afterwards the status is no longer
\* the default 'unknown'.
C24_StatisticsUpdateStatus ==
    (Called("GetVaultStatistics") /\ Len(last.reqs) = 1 /\ last.res.status = 200) =>
        /\ vault.statistics = last.res.body
        /\ VaultStatus(vault) # S_unknown

\* the ids of a listing
IdsOf(listed) == {listed[i] : i \in 1..Len(listed)}

AssignSent == AssignOnFile /\ Sent

\* C26: every entry of a payload AssignBlocksToFile sent, with or without
\* explicit pairs, names a key of the file's blocks that the file's offsets
\* hold at the entry's offset; with explicit pairs it is also a key of the
\* vault's blocks.
C26_SentEntriesAreConsistent ==
    /\ (AssignCalled /\ Sent) => AssignOnFile
    /\ AssignSent =>
          \A i \in 1..Len(ThePayload) :
             /\ ThePayload[i].id \in DOMAIN TheFile.blocks
             /\ ThePayload[i].offset \in DOMAIN TheFile.offsets
             /\ TheFile.offsets[ThePayload[i].offset] = ThePayload[i].id
             /\ ExplicitCall => ThePayload[i].id \in DOMAIN vault.blocks

\* a payload sent without explicit pairs with an entry whose block the
\* vault's registry does not hold
C26_Witness ==
    /\ DerivedCall
    /\ Sent
    /\ \E i \in 1..Len(ThePayload) : ThePayload[i].id \notin DOMAIN vault.blocks

\* the explicit list made of every entry of the file's offsets, in the order
\* the map is iterated
ListOf(file, order) ==
    [given |-> TRUE,
     pairs |-> [i \in 1..Len(order) |-> Pair(file.offsets[order[i]], order[i])]]

\* every block the file's offsets name is in the vault's registry
AllInVault(v, file) == \A o \in DOMAIN file.offsets : file.offsets[o] \in DOMAIN v.blocks

\* C27: for any vault and file, when validation passes for the explicit list
\* of every entry of the file's offsets in iteration order, it also passes
\* without explicit pairs and both calls send the same payload; the converse
\* holds when every referenced block is also in the vault's registry.
C27_ModesAgree ==
    /\ vault.t = "Vault" =>
          \A f \in DOMAIN vault.files :
             \A order \in Orders(DOMAIN vault.files[f].offsets) :
                LET file == vault.files[f]
                    explicit == AssignValidate(vault, "Vault", f, ListOf(file, order), order)
                    derived == AssignValidate(vault, "Vault", f, NoPairs, order)
                IN  /\ explicit = Passed =>
                          /\ derived = Passed
                          /\ AssignPayload(file, ListOf(file, order), order)
                                = AssignPayload(file, NoPairs, order)
                    /\ (derived = Passed /\ AllInVault(vault, file)) => explicit = Passed
    /\ (ExplicitCall /\ Sent) =>
          \A order \in Orders(DOMAIN TheFile.offsets) :
             ThePairs = ListOf(TheFile, order).pairs =>
                ThePayload = AssignPayload(TheFile, NoPairs, order)

\* a call that sent both entries of a file's offsets as explicit pairs
C27_Witness ==
    /\ ExplicitCall
    /\ Sent
    /\ Len(ThePairs) = 2
    /\ \E order \in Orders(DOMAIN TheFile.offsets) : ThePairs = ListOf(TheFile, order).pairs

\* the step is a run of one of the commands that take a vault name
ShellCommand == vault_stats \/ vault_delete \/ block_list \/ block_upload \/ file_create

\* C28: each command that takes a vault name (vault stats, vault delete,
\* blocks list, blocks upload, files create) invokes its client operation in
\* a form the operation accepts: given well-formed arguments the request for
\* the named vault is issued, and the call does not fail on its arguments.
C28_ShellCommandsIssueRequest ==
    [][(ShellCommand /\ DecoratorsPass(last')) =>
          /\ Len(last'.reqs) = 1
          /\ last'.outcome.exc # "TypeError"]_vars

====
